---- MODULE Spec2Model ----
(***************************************************************************)
(* Bsaraha backend: the anonymous-messaging and moderation core.           *)
(* The persistent store (users, follows, blocks, messages, reports) is the *)
(* state; every HTTP handler of routes/users, routes/messages and          *)
(* routes/admin that writes the store is an action.  A handler's response  *)
(* status is an operator (<Handler>Code) that walks the handler's early    *)
(* returns in source order; the action writes the store only when that     *)
(* operator yields the success status.                                     *)
(***************************************************************************)
EXTENDS Integers, Sequences, FiniteSets, TLC

\* ------------------------------------------------------------------ bounds
\* Messages ever created (ObjectIds are never reused), in the graph and
\* message-store specification, and in the specifications that also vary the
\* users' statuses.
MaxMsgs == 2
MaxFewMsgs == 1
\* Reports ever created, in the moderation specification and in the
\* specification of concurrent report requests.
MaxModReports == 1
MaxReports == 2
\* Last instant of the wall clock (it starts at 1).
MaxClock == 2
\* Report requests that may be in flight between their check and their save.
MaxInflight == 2

\* ------------------------------------------------------- identities, values
\* The user documents of the store.  u1 and u2 carry isAdmin = true.
Users == {"u1", "u2", "u3"}
Admins == {"u1", "u2"}
\* null / undefined / no bearer token.
None == "none"
\* An id that resolves to no document.
Unknown == "u0"
UserIds == Users \cup {Unknown}
Credentials == Users \cup {None}

UserStatus == {"active", "blocked", "banned"}
ReportStatus == {"pending", "reviewed", "resolved", "dismissed"}
ReviewStatus == {"reviewed", "resolved", "dismissed"}
ActionTypes == {"delete_message", "block_user", "ban_user"}
ReplyContents == {"r1", "r2"}
AdminNotes == {"n1", "n2"}
\* An unset Date field, and an unset reference to a message.
NoTime == 0
NoId == 0
NoReply == [content |-> None, isPublic |-> FALSE, createdAt |-> NoTime]

\* HTTP statuses the handlers answer with, and the spec's error kinds.
OK == 200
Created == 201
BadRequest == 400
Unauthorized == 401
Forbidden == 403
NotFound == 404
Conflict == 409
\* The answer of every handler's catch block.
Internal == 500
\* Middleware outcome next(): the request goes on to the handler.
Pass == 0

\* User.status, per user
VARIABLE status
\* User.settings.allowAnonymousMessages, per user
VARIABLE allowAnon
\* User.settings.emailNotifications, per user
VARIABLE emailNotif
\* Follow documents: <<follower, following>>
VARIABLE follows
\* Block documents: <<blocker, blocked>>
VARIABLE blocks
\* Message documents
VARIABLE messages
\* next fresh Message _id
VARIABLE nextMsgId
\* Report documents, in insertion order (_id = index)
VARIABLE reports
\* the wall clock
VARIABLE now
\* report requests suspended at `await report.save()`
VARIABLE inflight
\* ids of the messages the mailer was asked to announce to their recipient
VARIABLE notified
\* follow, block and reply requests suspended at an await, each with the
\* document it is about to write
VARIABLE pending

vars == <<status, allowAnon, emailNotif, follows, blocks, messages, nextMsgId,
          reports, now, inflight, notified, pending>>

\* ------------------------------------------------------------- middleware
authenticateToken(cred) ==
  IF cred = None THEN Unauthorized
  ELSE IF status[cred] # "active" THEN Forbidden
  ELSE Pass

\* req.user after optionalAuth: set only for an active user's token.
optionalAuth(cred) ==
  IF cred # None /\ status[cred] = "active" THEN cred ELSE None

\* The same middleware letting every authenticated user through.
requireAdminAlwaysPass(user) == Pass

requireAdmin(user) ==
  IF user \notin Admins THEN Forbidden ELSE Pass

\* router.use(authenticateToken, requireAdmin) of the admin router.
adminGate(cred) ==
  IF authenticateToken(cred) # Pass THEN authenticateToken(cred)
  ELSE requireAdmin(cred)

\* ---------------------------------------------------------------- queries
\* Block.findOne({$or: [{blocker: a, blocked: b}, {blocker: b, blocked: a}]})
isBlockedOneWay(a, b) == <<a, b>> \in blocks
isBlockedEitherWay(a, b) == <<a, b>> \in blocks \/ <<b, a>> \in blocks

\* Message.findById(id): the set holding the document, or the empty set.
MessageById(id) == {m \in messages : m.id = id}

\* Message.findOne({_id: id, recipient: user})
MessageOwnedByAnyone(id, user) == {m \in messages : m.id = id}
MessageOwnedBy(id, user) == {m \in messages : m.id = id /\ m.recipient = user}

Init ==
  /\ status = [u \in Users |-> "active"]
  /\ allowAnon = [u \in Users |-> TRUE]
  /\ emailNotif = [u \in Users |-> TRUE]
  /\ follows = {}
  /\ blocks = {}
  /\ messages = {}
  /\ nextMsgId = 1
  /\ reports = <<>>
  /\ now = 1
  /\ inflight = <<>>
  /\ notified = {}
  /\ pending = <<>>

\* ------------------------------------------------------------ routes/users
UpdateSettingsCode(cred) ==
  IF authenticateToken(cred) # Pass THEN authenticateToken(cred) ELSE OK

\* req.body is a record that holds each of the two boolean fields or not; a
\* field it does not hold leaves its setting as it is.
UpdateSettings(cred, body) ==
  /\ UpdateSettingsCode(cred) = OK
  /\ allowAnon' = IF "allowAnonymousMessages" \in DOMAIN body
                    THEN [allowAnon EXCEPT ![cred] = body.allowAnonymousMessages]
                    ELSE allowAnon
  /\ emailNotif' = IF "emailNotifications" \in DOMAIN body
                     THEN [emailNotif EXCEPT ![cred] = body.emailNotifications]
                     ELSE emailNotif
  /\ UNCHANGED <<pending, status, notified, follows, blocks, messages, nextMsgId, reports, now, inflight>>

\* GET /:identifier, the public profile.  The identifier resolves to a user
\* document or to none.
ProfileCode(cred, identifier) ==
  LET user == optionalAuth(cred) IN
  IF identifier \notin Users \/ status[identifier] # "active" THEN NotFound
  ELSE IF user # None /\ <<identifier, user>> \in blocks THEN Forbidden
  ELSE OK

\* The same ladder without the userId === req.user._id return.
FollowCodeNoSelfCheck(cred, userId) ==
  IF authenticateToken(cred) # Pass THEN authenticateToken(cred)
  ELSE IF userId \notin Users \/ status[userId] # "active" THEN NotFound
  ELSE IF <<cred, userId>> \in follows THEN BadRequest
  ELSE IF isBlockedEitherWay(cred, userId) THEN Forbidden
  ELSE OK

FollowCode(cred, userId) ==
  IF authenticateToken(cred) # Pass THEN authenticateToken(cred)
  ELSE IF userId = cred THEN BadRequest
  ELSE IF userId \notin Users \/ status[userId] # "active" THEN NotFound
  ELSE IF <<cred, userId>> \in follows THEN BadRequest
  ELSE IF isBlockedEitherWay(cred, userId) THEN Forbidden
  ELSE OK

Follow(cred, userId) ==
  /\ FollowCode(cred, userId) = OK
  /\ follows' = follows \cup {<<cred, userId>>}
  /\ UNCHANGED <<pending, status, allowAnon, emailNotif, notified, blocks, messages, nextMsgId, reports, now, inflight>>

UnfollowCode(cred, userId) ==
  IF authenticateToken(cred) # Pass THEN authenticateToken(cred)
  ELSE IF <<cred, userId>> \notin follows THEN BadRequest
  ELSE OK

Unfollow(cred, userId) ==
  /\ UnfollowCode(cred, userId) = OK
  /\ follows' = follows \ {<<cred, userId>>}
  /\ UNCHANGED <<pending, status, allowAnon, emailNotif, notified, blocks, messages, nextMsgId, reports, now, inflight>>

BlockCode(cred, userId) ==
  IF authenticateToken(cred) # Pass THEN authenticateToken(cred)
  ELSE IF userId = cred THEN BadRequest
  ELSE IF userId \notin Users THEN NotFound
  ELSE IF <<cred, userId>> \in blocks THEN BadRequest
  ELSE OK

\* Follow.deleteMany({$or: [{follower: a, following: b}, {follower: b, following: a}]})
deleteFollowsBetweenOneWay(a, b) == follows \ {<<a, b>>}
deleteFollowsBetween(a, b) == follows \ {<<a, b>>, <<b, a>>}

Block(cred, userId) ==
  /\ BlockCode(cred, userId) = OK
  /\ blocks' = blocks \cup {<<cred, userId>>}
  /\ follows' = deleteFollowsBetween(cred, userId)
  /\ UNCHANGED <<pending, status, allowAnon, emailNotif, notified, messages, nextMsgId, reports, now, inflight>>

UnblockCode(cred, userId) ==
  IF authenticateToken(cred) # Pass THEN authenticateToken(cred)
  ELSE IF <<cred, userId>> \notin blocks THEN BadRequest
  ELSE OK

Unblock(cred, userId) ==
  /\ UnblockCode(cred, userId) = OK
  /\ blocks' = blocks \ {<<cred, userId>>}
  /\ UNCHANGED <<pending, status, allowAnon, emailNotif, notified, follows, messages, nextMsgId, reports, now, inflight>>

\* --------------------------------- routes/users, the handlers step by step
\* A request document of `pending`: the route, req.user, the user or message
\* it names, and for a reply the sub-document it has built.
Request(kind, actor, target, msg, content, isPublic, createdAt) ==
  [kind |-> kind, actor |-> actor, target |-> target, msg |-> msg,
   content |-> content, isPublic |-> isPublic, createdAt |-> createdAt]

\* A sequence without its i-th element.
RemoveAt(seq, i) ==
  [j \in 1..(Len(seq) - 1) |-> IF j < i THEN seq[j] ELSE seq[j + 1]]

\* POST /:userId/follow up to `await follow.save()`: the lookups have passed.
FollowBegin(cred, userId) ==
  /\ FollowCode(cred, userId) = OK
  /\ pending' = Append(pending, Request("follow", cred, userId, NoId, None, FALSE,
                               NoTime))
  /\ UNCHANGED <<status, allowAnon, emailNotif, notified, follows, blocks,
                 messages, nextMsgId, reports, now, inflight>>

\* The answer of the request once follow.save() settles: the unique index
\* {follower, following} rejects a second document of the pair, and the
\* handler's catch answers 500.
FollowSaveCode(req) ==
  IF <<req.actor, req.target>> \in follows THEN Internal ELSE OK

FollowSave(i) ==
  /\ i \in DOMAIN pending
  /\ pending[i].kind = "follow"
  /\ follows' = IF FollowSaveCode(pending[i]) = OK
                  THEN follows \cup {<<pending[i].actor, pending[i].target>>}
                  ELSE follows
  /\ pending' = RemoveAt(pending, i)
  /\ UNCHANGED <<status, allowAnon, emailNotif, notified, blocks, messages,
                 nextMsgId, reports, now, inflight>>

\* POST /:userId/block up to `await block.save()`.
BlockBegin(cred, userId) ==
  /\ BlockCode(cred, userId) = OK
  /\ pending' = Append(pending, Request("block", cred, userId, NoId, None, FALSE,
                               NoTime))
  /\ UNCHANGED <<status, allowAnon, emailNotif, notified, follows, blocks,
                 messages, nextMsgId, reports, now, inflight>>

\* The unique index {blocker, blocked} rejects a second document of the pair.
BlockSaveCode(req) ==
  IF <<req.actor, req.target>> \in blocks THEN Internal ELSE OK

\* block.save() settles; on success the handler goes on to
\* `await Follow.deleteMany(...)`, on failure it answers from its catch.
BlockSave(i) ==
  /\ i \in DOMAIN pending
  /\ pending[i].kind = "block"
  /\ IF BlockSaveCode(pending[i]) = OK
       THEN /\ blocks' = blocks \cup {<<pending[i].actor, pending[i].target>>}
            /\ pending' = [pending EXCEPT ![i].kind = "purge"]
       ELSE /\ blocks' = blocks
            /\ pending' = RemoveAt(pending, i)
  /\ UNCHANGED <<status, allowAnon, emailNotif, notified, follows, messages,
                 nextMsgId, reports, now, inflight>>

\* Follow.deleteMany of the pair runs and the block request answers.
BlockPurge(i) ==
  /\ i \in DOMAIN pending
  /\ pending[i].kind = "purge"
  /\ follows' = deleteFollowsBetween(pending[i].actor, pending[i].target)
  /\ pending' = RemoveAt(pending, i)
  /\ UNCHANGED <<status, allowAnon, emailNotif, notified, blocks, messages,
                 nextMsgId, reports, now, inflight>>

\* --------------------------------------------------------- routes/messages
\* The same ladder without the "cannot send to yourself" return.
SendCodeNoSelfCheck(cred, recipientId, isAnonymous) ==
  LET user == optionalAuth(cred) IN
  IF recipientId \notin Users \/ status[recipientId] # "active" THEN NotFound
  ELSE IF isAnonymous /\ ~allowAnon[recipientId] THEN Forbidden
  ELSE IF user # None /\ isBlockedEitherWay(user, recipientId) THEN Forbidden
  ELSE Created

SendCode(cred, recipientId, isAnonymous) ==
  LET user == optionalAuth(cred) IN
  IF recipientId \notin Users \/ status[recipientId] # "active" THEN NotFound
  ELSE IF isAnonymous /\ ~allowAnon[recipientId] THEN Forbidden
  ELSE IF user # None /\ isBlockedEitherWay(user, recipientId) THEN Forbidden
  ELSE IF user # None /\ user = recipientId THEN BadRequest
  ELSE Created

\* sender: req.user && !isAnonymous ? req.user._id : null
storedSenderAlways(user, isAnonymous) == user
storedSender(user, isAnonymous) ==
  IF user # None /\ ~isAnonymous THEN user ELSE None

\* new Message({recipient, sender, content, image, isAnonymous}).  The fields
\* cred, by and asked are not stored by the program: they record the request
\* that created the document (the token presented, req.user, and the
\* isAnonymous input).
NewMessageFlagFromAuth(id, cred, user, recipientId, isAnonymous) ==
  [id |-> id, recipient |-> recipientId, sender |-> user,
   isAnonymous |-> (user = None), isRead |-> FALSE, reply |-> NoReply,
   cred |-> cred, by |-> user, asked |-> isAnonymous]
NewMessage(id, cred, user, recipientId, isAnonymous) ==
  [id |-> id, recipient |-> recipientId,
   sender |-> storedSender(user, isAnonymous),
   isAnonymous |-> isAnonymous, isRead |-> FALSE, reply |-> NoReply,
   cred |-> cred, by |-> user, asked |-> isAnonymous]

\* The message ids POST /send hands to emailService.sendNewMessageNotification:
\* the handler saves, populates and answers, and calls the mailer nowhere.
SendNotifications(id, recipientId) == {}

Send(cred, recipientId, isAnonymous) ==
  /\ SendCode(cred, recipientId, isAnonymous) = Created
  /\ messages' = messages \cup
       {NewMessage(nextMsgId, cred, optionalAuth(cred), recipientId, isAnonymous)}
  /\ nextMsgId' = nextMsgId + 1
  /\ notified' = notified \cup SendNotifications(nextMsgId, recipientId)
  /\ UNCHANGED <<pending, status, allowAnon, emailNotif, follows, blocks, reports, now, inflight>>

\* Documents of a set, newest first (createdAt grows with the _id).
RECURSIVE NewestFirst(_)
NewestFirst(S) ==
  IF S = {} THEN <<>>
  ELSE LET m == CHOOSE x \in S : \A y \in S : y.id <= x.id
       IN <<m>> \o NewestFirst(S \ {m})

\* .skip(skip).limit(limit)
SkipLimit(seq, skip, limit) ==
  SubSeq(seq, skip + 1, IF skip + limit < Len(seq) THEN skip + limit ELSE Len(seq))

\* The formattedMessages entry of GET /inbox.
InboxEntry(m) ==
  [id |-> m.id, isAnonymous |-> m.isAnonymous, isRead |-> m.isRead,
   sender |-> IF m.isAnonymous THEN None ELSE m.sender, reply |-> m.reply]

\* GET /inbox: data.messages for an authenticated user, page and limit.
Inbox(user, page, limit) ==
  LET all == NewestFirst({m \in messages : m.recipient = user})
      shown == SkipLimit(all, (page - 1) * limit, limit)
  IN [i \in 1..Len(shown) |-> InboxEntry(shown[i])]

\* GET /feed.  Follow.find({follower: req.user._id}) mapped to f.following,
\* then followingIds.push(req.user._id).
followingIdsAsFollowers(user) ==
  {f[1] : f \in {g \in follows : g[2] = user}} \cup {user}
followingIds(user) ==
  {f[2] : f \in {g \in follows : g[1] = user}} \cup {user}

\* Message.find({recipient: {$in: followingIds}, "reply.content": {$exists:
\* true}, "reply.isPublic": true})
FeedQuery(user) ==
  {m \in messages : /\ m.recipient \in followingIds(user)
                    /\ m.reply.content # None
                    /\ m.reply.isPublic}

\* Every arrangement of a set of documents in a sequence.
RECURSIVE Orderings(_)
Orderings(S) ==
  IF S = {} THEN {<<>>}
  ELSE UNION {{<<m>> \o rest : rest \in Orderings(S \ {m})} : m \in S}

\* .sort({"reply.createdAt": -1}): documents with equal keys come in an order
\* the store chooses.
SortedByReplyDesc(S) ==
  {o \in Orderings(S) :
     \A i \in 1..(Len(o) - 1) : o[i].reply.createdAt >= o[i + 1].reply.createdAt}

\* The feedItems entry.
FeedItem(m) ==
  [id |-> m.id, isAnonymous |-> m.isAnonymous,
   sender |-> IF m.isAnonymous THEN None ELSE m.sender,
   recipient |-> m.recipient, reply |-> m.reply]

FeedCode(cred) ==
  IF authenticateToken(cred) # Pass THEN authenticateToken(cred) ELSE OK

\* data.feed for an authenticated user, page and limit: the answers the
\* request may get.
Feed(user, page, limit) ==
  {LET shown == SkipLimit(o, (page - 1) * limit, limit)
   IN [i \in 1..Len(shown) |-> FeedItem(shown[i])] :
     o \in SortedByReplyDesc(FeedQuery(user))}

ReadCode(cred, messageId) ==
  IF authenticateToken(cred) # Pass THEN authenticateToken(cred)
  ELSE IF MessageOwnedBy(messageId, cred) = {} THEN NotFound
  ELSE OK

Read(cred, messageId) ==
  /\ ReadCode(cred, messageId) = OK
  /\ messages' = {IF m.id = messageId THEN [m EXCEPT !.isRead = TRUE] ELSE m :
                    m \in messages}
  /\ UNCHANGED <<pending, status, allowAnon, emailNotif, notified, follows, blocks, nextMsgId, reports, now, inflight>>

\* message.reply && message.reply.content
hasReply(m) == m.reply.content # None

ReplyCode(cred, messageId) ==
  IF authenticateToken(cred) # Pass THEN authenticateToken(cred)
  ELSE IF MessageOwnedBy(messageId, cred) = {} THEN NotFound
  ELSE IF \E m \in MessageOwnedBy(messageId, cred) : hasReply(m) THEN BadRequest
  ELSE OK

\* The same handler without `message.isRead = true`.
ReplyNotMarkingRead(cred, messageId, content, isPublic) ==
  /\ ReplyCode(cred, messageId) = OK
  /\ messages' = {IF m.id = messageId
                    THEN [m EXCEPT !.reply = [content |-> content,
                                              isPublic |-> isPublic,
                                              createdAt |-> now]]
                    ELSE m : m \in messages}
  /\ UNCHANGED <<pending, status, allowAnon, emailNotif, notified, follows,
                 blocks, nextMsgId, reports, now, inflight>>

Reply(cred, messageId, content, isPublic) ==
  /\ ReplyCode(cred, messageId) = OK
  /\ messages' = {IF m.id = messageId
                    THEN [m EXCEPT !.reply = [content |-> content,
                                              isPublic |-> isPublic,
                                              createdAt |-> now],
                                   !.isRead = TRUE]
                    ELSE m : m \in messages}
  /\ UNCHANGED <<pending, status, allowAnon, emailNotif, notified, follows, blocks, nextMsgId, reports, now, inflight>>

\* POST /:messageId/reply up to `await message.save()`: the message was found
\* without a reply, and the loaded document carries the new reply.
ReplyBegin(cred, messageId, content, isPublic) ==
  /\ ReplyCode(cred, messageId) = OK
  /\ pending' = Append(pending, Request("reply", cred, None, messageId,
                                        content, isPublic, now))
  /\ UNCHANGED <<status, allowAnon, emailNotif, notified, follows, blocks,
                 messages, nextMsgId, reports, now, inflight>>

\* The answers the request may get once message.save() settles.  The save
\* updates the document by _id with the modified paths and compares nothing
\* with what is stored; when the document is gone it writes nothing, and
\* resolves or throws according to the driver.
ReplySaveCodes(req) ==
  IF MessageById(req.msg) = {} THEN {OK, Internal} ELSE {OK}

ReplySave(i) ==
  /\ i \in DOMAIN pending
  /\ pending[i].kind = "reply"
  /\ messages' = {IF m.id = pending[i].msg
                    THEN [m EXCEPT !.reply = [content |-> pending[i].content,
                                              isPublic |-> pending[i].isPublic,
                                              createdAt |-> pending[i].createdAt],
                                   !.isRead = TRUE]
                    ELSE m : m \in messages}
  /\ pending' = RemoveAt(pending, i)
  /\ UNCHANGED <<status, allowAnon, emailNotif, notified, follows, blocks,
                 nextMsgId, reports, now, inflight>>

DeleteMessageCode(cred, messageId) ==
  IF authenticateToken(cred) # Pass THEN authenticateToken(cred)
  ELSE IF MessageOwnedBy(messageId, cred) = {} THEN NotFound
  ELSE OK

DeleteMessage(cred, messageId) ==
  /\ DeleteMessageCode(cred, messageId) = OK
  /\ messages' = {m \in messages : m.id # messageId}
  /\ UNCHANGED <<pending, status, allowAnon, emailNotif, notified, follows, blocks, nextMsgId, reports, now, inflight>>

\* new Report({reporter, reportedMessage, reportedUser: message.sender, ...});
\* status defaults to "pending", the review fields are unset.
NewReport(reporter, messageId, sender) ==
  [reporter |-> reporter, reportedMessage |-> messageId, reportedUser |-> sender,
   status |-> "pending", adminNotes |-> None, reviewedBy |-> None,
   reviewedAt |-> NoTime]

\* Report.findOne({reporter, reportedMessage})
existingReport(reporter, messageId) ==
  \E i \in DOMAIN reports :
    reports[i].reporter = reporter /\ reports[i].reportedMessage = messageId

ReportCode(cred, messageId) ==
  IF authenticateToken(cred) # Pass THEN authenticateToken(cred)
  ELSE IF MessageById(messageId) = {} THEN NotFound
  ELSE IF existingReport(cred, messageId) THEN BadRequest
  ELSE OK

\* POST /:messageId/report, handled without another request in between.
Report(cred, messageId) ==
  /\ ReportCode(cred, messageId) = OK
  /\ \E m \in MessageById(messageId) :
       reports' = Append(reports, NewReport(cred, messageId, m.sender))
  /\ UNCHANGED <<pending, status, allowAnon, emailNotif, notified, follows, blocks, messages, nextMsgId, now, inflight>>

\* The same handler up to `await report.save()`: the checks have passed and
\* the document is built, but not yet inserted.
ReportBegin(cred, messageId) ==
  /\ ReportCode(cred, messageId) = OK
  /\ \E m \in MessageById(messageId) :
       inflight' = Append(inflight, NewReport(cred, messageId, m.sender))
  /\ UNCHANGED <<pending, status, allowAnon, emailNotif, notified, follows, blocks, messages, nextMsgId, reports, now>>

\* ReportSchema declares one index, {status, createdAt}, which is not unique:
\* the insert accepts every document.
reportInsertAllowed(doc) == TRUE

\* `await report.save()` of a suspended request completes.
ReportSave(i) ==
  /\ i \in DOMAIN inflight
  /\ reports' = IF reportInsertAllowed(inflight[i])
                  THEN Append(reports, inflight[i]) ELSE reports
  /\ inflight' = [j \in 1..(Len(inflight) - 1) |->
                    IF j < i THEN inflight[j] ELSE inflight[j + 1]]
  /\ UNCHANGED <<pending, status, allowAnon, emailNotif, notified, follows, blocks, messages, nextMsgId, now>>

\* ------------------------------------------------------------ routes/admin
UpdateUserStatusCode(cred, userId, newStatus) ==
  IF adminGate(cred) # Pass THEN adminGate(cred)
  ELSE IF newStatus \notin UserStatus THEN BadRequest
  ELSE IF userId \notin Users THEN NotFound
  ELSE IF userId = cred THEN BadRequest
  ELSE IF userId \in Admins /\ cred \notin Admins THEN Forbidden
  ELSE OK

\* The same route also removing the follow edges of a user it bans.
UpdateUserStatusPurging(cred, userId, newStatus) ==
  /\ UpdateUserStatusCode(cred, userId, newStatus) = OK
  /\ status' = [status EXCEPT ![userId] = newStatus]
  /\ follows' = IF newStatus = "banned"
                  THEN {f \in follows : f[1] # userId /\ f[2] # userId}
                  ELSE follows
  /\ UNCHANGED <<pending, allowAnon, emailNotif, notified, blocks, messages, nextMsgId, reports, now, inflight>>

UpdateUserStatus(cred, userId, newStatus) ==
  /\ UpdateUserStatusCode(cred, userId, newStatus) = OK
  /\ status' = [status EXCEPT ![userId] = newStatus]
  /\ UNCHANGED <<pending, allowAnon, emailNotif, notified, follows, blocks, messages, nextMsgId, reports, now, inflight>>

\* The same ladder, answering 404 as well when the reported message is gone.
ReviewCodeNeedsMessage(cred, reportId, newStatus) ==
  IF adminGate(cred) # Pass THEN adminGate(cred)
  ELSE IF newStatus \notin ReviewStatus THEN BadRequest
  ELSE IF reportId \notin DOMAIN reports THEN NotFound
  ELSE IF MessageById(reports[reportId].reportedMessage) = {} THEN NotFound
  ELSE OK

\* The same ladder, validating the status against every value of the schema.
ReviewCodeAnyStatus(cred, reportId, newStatus) ==
  IF adminGate(cred) # Pass THEN adminGate(cred)
  ELSE IF newStatus \notin ReportStatus THEN BadRequest
  ELSE IF reportId \notin DOMAIN reports THEN NotFound
  ELSE OK

ReviewCode(cred, reportId, newStatus) ==
  IF adminGate(cred) # Pass THEN adminGate(cred)
  ELSE IF newStatus \notin ReviewStatus THEN BadRequest
  ELSE IF reportId \notin DOMAIN reports THEN NotFound
  ELSE OK

\* The switch on action.type, run after the report is saved.
CascadeMessages(report, actionType) ==
  IF actionType = "delete_message" /\ report.reportedMessage # NoId
    THEN {m \in messages : m.id # report.reportedMessage}
    ELSE messages

\* The same switch with the two user cases writing the same status.
CascadeStatusBanAsBlock(report, actionType) ==
  IF actionType \in {"block_user", "ban_user"} /\ report.reportedUser # None
    THEN [status EXCEPT ![report.reportedUser] = "blocked"]
  ELSE status

CascadeStatus(report, actionType) ==
  IF actionType = "block_user" /\ report.reportedUser # None
    THEN [status EXCEPT ![report.reportedUser] = "blocked"]
  ELSE IF actionType = "ban_user" /\ report.reportedUser # None
    THEN [status EXCEPT ![report.reportedUser] = "banned"]
  ELSE status

Review(cred, reportId, newStatus, adminNotes, actionType) ==
  /\ ReviewCode(cred, reportId, newStatus) = OK
  /\ reports' = [reports EXCEPT ![reportId] =
                   [@ EXCEPT !.status = newStatus, !.adminNotes = adminNotes,
                             !.reviewedBy = cred, !.reviewedAt = now]]
  /\ messages' = CascadeMessages(reports[reportId], actionType)
  /\ status' = CascadeStatus(reports[reportId], actionType)
  /\ UNCHANGED <<pending, allowAnon, emailNotif, notified, follows, blocks, nextMsgId, now, inflight>>

AdminDeleteMessageCode(cred, messageId) ==
  IF adminGate(cred) # Pass THEN adminGate(cred)
  ELSE IF MessageById(messageId) = {} THEN NotFound
  ELSE OK

AdminDeleteMessage(cred, messageId) ==
  /\ AdminDeleteMessageCode(cred, messageId) = OK
  /\ messages' = {m \in messages : m.id # messageId}
  /\ UNCHANGED <<pending, status, allowAnon, emailNotif, notified, follows, blocks, nextMsgId, reports, now, inflight>>

\* --------------------------------------------------------------- the clock
\* Time passes between requests; new Date() reads `now`.
Tick ==
  /\ now < MaxClock
  /\ now' = now + 1
  /\ UNCHANGED <<pending, status, allowAnon, emailNotif, notified, follows, blocks, messages, nextMsgId, reports, inflight>>

\* ---------------------------------------------------------- specifications
\* Ids a request may name: those of the documents that can exist, and for
\* reports one more, which resolves to no document.
MsgIds == 1..MaxMsgs
ReportIds == 1..(MaxReports + 1)
\* Inputs of the two status-taking admin routes, one of them invalid for each.
StatusInputs == UserStatus \cup {"pending"}
ReviewInputs == ReportStatus

\* The relationship graph and the delivery policy that consults it.  The
\* admins change the status of the users that are not admins.
NextGraph ==
  \/ \E c \in Credentials, u \in UserIds : Follow(c, u)
  \/ \E c \in Credentials, u \in UserIds : Unfollow(c, u)
  \/ \E c \in Credentials, u \in UserIds : Block(c, u)
  \/ \E c \in Credentials, u \in UserIds : Unblock(c, u)
  \/ \E c \in Credentials, u \in UserIds, a \in BOOLEAN :
       nextMsgId <= MaxFewMsgs /\ Send(c, u, a)
  \/ \E c \in Credentials, u \in Users \ Admins, s \in StatusInputs :
       UpdateUserStatus(c, u, s)

SpecGraph == Init /\ [][NextGraph]_vars

\* The message store: send and the recipient's operations.
NextMsg ==
  \/ \E c \in Credentials, u \in UserIds, a \in BOOLEAN :
       nextMsgId <= MaxMsgs /\ Send(c, u, a)
  \/ \E c \in Credentials, id \in MsgIds : Read(c, id)
  \/ \E c \in Credentials, id \in MsgIds, rc \in ReplyContents, p \in BOOLEAN :
       Reply(c, id, rc, p)
  \/ \E c \in Credentials, id \in MsgIds : DeleteMessage(c, id)

SpecMsg == Init /\ [][NextMsg]_vars

\* Moderation: reports, their review with its cascade, and the admin routes.
NextMod ==
  \/ \E c \in Credentials, u \in UserIds, a \in BOOLEAN :
       nextMsgId <= MaxFewMsgs /\ Send(c, u, a)
  \/ \E c \in Credentials, id \in MsgIds :
       Len(reports) < MaxModReports /\ Report(c, id)
  \/ \E c \in Credentials, r \in ReportIds, s \in ReviewInputs,
        n \in AdminNotes, t \in ActionTypes \cup {None} : Review(c, r, s, n, t)
  \/ \E c \in Credentials, u \in UserIds, s \in StatusInputs :
       UpdateUserStatus(c, u, s)
  \/ \E c \in Credentials, id \in MsgIds : AdminDeleteMessage(c, id)
  \/ Tick

SpecMod == Init /\ [][NextMod]_vars

\* Report requests served concurrently: a handler may be suspended at its
\* save while other requests run.
NextConc ==
  \/ \E c \in Credentials, u \in UserIds, a \in BOOLEAN :
       nextMsgId <= MaxFewMsgs /\ Send(c, u, a)
  \/ \E c \in Credentials, id \in MsgIds :
       /\ Len(reports) + Len(inflight) < MaxReports
       /\ Len(inflight) < MaxInflight
       /\ ReportBegin(c, id)
  \/ \E i \in 1..MaxInflight : ReportSave(i)

SpecConc == Init /\ [][NextConc]_vars

\* Delivery policy: the recipient's settings, the blocks and the statuses a
\* send consults.
NextDelivery ==
  \/ \E c \in Credentials, b \in [{"allowAnonymousMessages"} -> BOOLEAN] :
       UpdateSettings(c, b)
  \/ \E c \in Credentials, u \in UserIds : Block(c, u)
  \/ \E c \in Credentials, u \in UserIds : Unblock(c, u)
  \/ \E c \in Credentials, u \in UserIds, a \in BOOLEAN :
       nextMsgId <= MaxFewMsgs /\ Send(c, u, a)
  \/ \E c \in Credentials, u \in Users \ Admins, s \in StatusInputs :
       UpdateUserStatus(c, u, s)

SpecDelivery == Init /\ [][NextDelivery]_vars

\* The review cascade.  u2, u3 or a caller without token sends to u1, who
\* deletes and reports; u1 (an admin) or u3 (not one) reviews, with a valid or
\* an invalid status and one admin note.
NextCascade ==
  \/ \E c \in {"u2", "u3", None}, a \in BOOLEAN :
       nextMsgId <= MaxMsgs /\ Send(c, "u1", a)
  \/ \E id \in MsgIds : DeleteMessage("u1", id)
  \/ \E id \in MsgIds : Len(reports) < MaxModReports /\ Report("u1", id)
  \/ \E c \in {"u1", "u3"}, r \in ReportIds, s \in {"resolved", "pending"},
        t \in ActionTypes \cup {None} : Review(c, r, s, "n1", t)

SpecCascade == Init /\ [][NextCascade]_vars

\* The public feed: u1 and u2 follow and unfollow, callers without token send,
\* the recipients reply with one content, publicly or not, and time passes.
NextFeed ==
  \/ \E c \in Admins, u \in UserIds : Follow(c, u)
  \/ \E c \in Admins, u \in UserIds : Unfollow(c, u)
  \/ \E u \in UserIds : nextMsgId <= MaxMsgs /\ Send(None, u, TRUE)
  \/ \E c \in Credentials, id \in MsgIds, p \in BOOLEAN : Reply(c, id, "r1", p)
  \/ Tick

SpecFeed == Init /\ [][NextFeed]_vars

\* Who may change or remove a message: a caller without token sends to u1 or
\* u3; every caller tries to read, reply and delete, on the recipient path
\* and on the admin path; u3 reports, and u1 or u3 reviews, with a valid or
\* an invalid status and with the delete_message action or none.
NextOwner ==
  \/ \E u \in {"u1", "u3"} : nextMsgId <= MaxMsgs /\ Send(None, u, TRUE)
  \/ \E c \in Credentials, id \in MsgIds : Read(c, id)
  \/ \E c \in Credentials, id \in MsgIds, p \in BOOLEAN : Reply(c, id, "r1", p)
  \/ \E c \in Credentials, id \in MsgIds : DeleteMessage(c, id)
  \/ \E c \in Credentials, id \in MsgIds : AdminDeleteMessage(c, id)
  \/ \E id \in MsgIds : Len(reports) < MaxModReports /\ Report("u3", id)
  \/ \E c \in {"u1", "u3"}, r \in ReportIds, s \in {"resolved", "pending"},
        t \in {"delete_message", None} : Review(c, r, s, "n1", t)

SpecOwner == Init /\ [][NextOwner]_vars

\* Notification of the recipient: the users switch their emailNotifications
\* setting and every caller sends.
NextNotify ==
  \/ \E c \in Credentials, b \in [{"emailNotifications"} -> BOOLEAN] :
       UpdateSettings(c, b)
  \/ \E c \in Credentials, u \in UserIds, a \in BOOLEAN :
       nextMsgId <= MaxMsgs /\ Send(c, u, a)

SpecNotify == Init /\ [][NextNotify]_vars

\* The admin gate: u3 follows the admins and blocks u2; u3 or a caller without
\* token sends to u1, u2 reports, and every caller, admin or not, active or
\* not, asks for reviews (with the ban_user action or none) and for status
\* changes of every user.
NextAdmin ==
  \/ \E u \in Admins : Follow("u3", u)
  \/ Block("u3", "u2")
  \/ \E c \in {"u3", None} : nextMsgId <= MaxFewMsgs /\ Send(c, "u1", FALSE)
  \/ \E id \in MsgIds : Len(reports) < MaxModReports /\ Report("u2", id)
  \/ \E c \in Credentials, r \in ReportIds, s \in ReviewInputs,
        t \in {"ban_user", None} : Review(c, r, s, "n1", t)
  \/ \E c \in Credentials, u \in UserIds, s \in StatusInputs :
       UpdateUserStatus(c, u, s)

SpecAdmin == Init /\ [][NextAdmin]_vars

\* Follow and block requests of u1 and u2 served concurrently: a handler may
\* be suspended at each of its writes while other requests run.
NextConcGraph ==
  \/ \E c \in Admins, u \in Admins :
       Len(pending) < MaxInflight /\ FollowBegin(c, u)
  \/ \E c \in Admins, u \in Admins :
       Len(pending) < MaxInflight /\ BlockBegin(c, u)
  \/ \E i \in 1..MaxInflight : FollowSave(i)
  \/ \E i \in 1..MaxInflight : BlockSave(i)
  \/ \E i \in 1..MaxInflight : BlockPurge(i)
  \/ \E c \in Admins, u \in Admins : Unfollow(c, u)
  \/ \E c \in Admins, u \in Admins : Unblock(c, u)

SpecConcGraph == Init /\ [][NextConcGraph]_vars

\* Reply requests served concurrently: u3 or a caller without token sends to
\* u1, every user asks to reply, the handlers are suspended at their save,
\* and u1 deletes.
NextConcReply ==
  \/ \E c \in {"u3", None}, a \in BOOLEAN :
       nextMsgId <= MaxFewMsgs /\ Send(c, "u1", a)
  \/ \E c \in Users, id \in MsgIds, rc \in ReplyContents, p \in BOOLEAN :
       Len(pending) < MaxInflight /\ ReplyBegin(c, id, rc, p)
  \/ \E i \in 1..MaxInflight : ReplySave(i)
  \/ \E id \in MsgIds : DeleteMessage("u1", id)

SpecConcReply == Init /\ [][NextConcReply]_vars

\* Every handler, each request served without another in between.
Next ==
  \/ NextGraph
  \/ NextMsg
  \/ NextMod
  \/ \E c \in Credentials, b \in [{"allowAnonymousMessages"} -> BOOLEAN] :
       UpdateSettings(c, b)

Spec == Init /\ [][Next]_vars

\* ------------------------------------------------------------------ claims
active(u) == status[u] = "active"

\* C1: once a has blocked b (a # b), no follow edge joins a and b in either
\* direction, and while the block edge exists a Follow by either of them
\* (both active) towards the other is answered 403 Forbidden, so that no
\* edge is created.
C1_BlockSeversFollow ==
  \A a \in Users, b \in Users :
    (a # b /\ <<a, b>> \in blocks) =>
      /\ <<a, b>> \notin follows
      /\ <<b, a>> \notin follows
      /\ (active(a) /\ active(b)) =>
           (FollowCode(a, b) = Forbidden /\ FollowCode(b, a) = Forbidden)

C1_Witness ==
  \E a \in Users, b \in Users :
    /\ a # b /\ <<a, b>> \in blocks /\ active(a) /\ active(b)
    /\ FollowCode(a, b) = Forbidden /\ FollowCode(b, a) = Forbidden
    /\ \E c \in Users : <<c, a>> \in follows

\* C2: a Reply by the recipient on a message that already has a reply is
\* answered with the Conflict kind (409).
C2_SecondReplyConflict ==
  \A m \in messages :
    (hasReply(m) /\ active(m.recipient)) =>
      ReplyCode(m.recipient, m.id) = Conflict

\* C3: at most one report document exists per (reporter, reportedMessage)
\* pair, also when report requests are served concurrently.
C3_ReportPairUnique ==
  \A i \in DOMAIN reports, j \in DOMAIN reports :
    (reports[i].reporter = reports[j].reporter /\
     reports[i].reportedMessage = reports[j].reportedMessage) => i = j

\* C4: a message sent with isAnonymous = true, by an authenticated or an
\* unauthenticated caller, appears on every inbox page of its recipient with
\* sender = null.
C4_InboxHidesAnonymousSender ==
  \A u \in Users, page \in 1..MaxMsgs, limit \in 1..MaxMsgs :
    LET box == Inbox(u, page, limit) IN
    \A i \in DOMAIN box :
      \A m \in MessageById(box[i].id) : m.asked => box[i].sender = None

C4_Witness ==
  \E u \in Users :
    LET box == Inbox(u, 1, MaxMsgs) IN
    /\ \E i \in DOMAIN box : \E m \in MessageById(box[i].id) :
         m.asked /\ m.by # None /\ box[i].sender = None
    /\ \E i \in DOMAIN box : \E m \in MessageById(box[i].id) :
         m.asked /\ m.by = None /\ box[i].sender = None

\* C5: while a block edge (a, b) exists between two active users, a Send by
\* authenticated a to b and by authenticated b to a is answered 403 Forbidden
\* whatever isAnonymous is, and no step stores a message from an
\* authenticated caller to a recipient blocked either way with the caller.
C5_BlockedSendForbidden ==
  /\ [](\A a \in Users, b \in Users :
          (a # b /\ <<a, b>> \in blocks /\ active(a) /\ active(b)) =>
            \A anon \in BOOLEAN :
              SendCode(a, b, anon) = Forbidden /\ SendCode(b, a, anon) = Forbidden)
  /\ [][\A m \in messages' \ messages :
          m.by # None => ~isBlockedEitherWay(m.by, m.recipient)]_vars

C5_Witness ==
  \E a \in Users, b \in Users :
    /\ a # b /\ <<a, b>> \in blocks /\ active(a) /\ active(b)
    /\ nextMsgId <= MaxFewMsgs
    /\ SendCode(a, b, FALSE) = Forbidden /\ SendCode(b, a, TRUE) = Forbidden

\* C6: once a report's status is reviewed, resolved or dismissed, no step
\* changes its status, notes, reviewer or review time.
C6_ReviewedIsTerminal ==
  [][\A i \in DOMAIN reports :
       reports[i].status \in ReviewStatus => reports'[i] = reports[i]]_vars

\* A request of the moderation specification carrying credential c.
ModRequestBy(c) ==
  \/ \E u \in UserIds, a \in BOOLEAN : Send(c, u, a)
  \/ \E id \in MsgIds : Report(c, id)
  \/ \E r \in ReportIds, s \in ReviewInputs, n \in AdminNotes,
        t \in ActionTypes \cup {None} : Review(c, r, s, n, t)
  \/ \E u \in UserIds, s \in StatusInputs : UpdateUserStatus(c, u, s)
  \/ \E id \in MsgIds : AdminDeleteMessage(c, id)

\* C7: no step changes the status of the identity whose request it serves,
\* be it the admin status route or the block_user/ban_user cascade of Review.
C7_NoSelfAppliedStatus ==
  [][\A u \in Users :
       status'[u] # status[u] =>
         /\ ~ \E t \in UserIds, s \in StatusInputs : UpdateUserStatus(u, t, s)
         /\ ~ \E r \in ReportIds, s \in ReviewInputs, n \in AdminNotes,
                 t \in ActionTypes \cup {None} : Review(u, r, s, n, t)]_vars

\* C8: the admin status route leaves the status of a target whose isAdmin is
\* true unchanged, whoever the admin actor is.
C8_AdminTargetProtected ==
  [][\A c \in Credentials, t \in Admins, s \in StatusInputs :
       UpdateUserStatus(c, t, s) => status'[t] = status[t]]_vars

\* C9: a request carrying the token of a user whose status is blocked or
\* banned changes nothing in the store, whichever route it targets.
C9_InactiveCallerChangesNothing ==
  [][\A c \in Users :
       (status[c] # "active" /\ ModRequestBy(c)) => UNCHANGED vars]_vars

\* C10: every stored message has sender null when its request asked for
\* anonymity or req.user was unset, and req.user's id otherwise; its
\* isAnonymous flag is the request's isAnonymous.
C10_StoredSender ==
  \A m \in messages :
    /\ m.sender = (IF m.asked \/ m.by = None THEN None ELSE m.by)
    /\ m.isAnonymous = m.asked

C10_Witness ==
  /\ \E m \in messages : m.by # None /\ ~m.asked /\ m.sender = m.by
  /\ \E m \in messages : m.by # None /\ m.asked /\ m.sender = None

\* C11: a report on a stored message whose request came from an authenticated
\* caller captures that caller as reportedUser, also when the request asked
\* for anonymity, so that a block_user/ban_user cascade reaches the caller.
C11_AnonymousSenderAttributable ==
  \A i \in DOMAIN reports :
    \A m \in MessageById(reports[i].reportedMessage) :
      m.by # None => reports[i].reportedUser = m.by

\* C12: Follow(a, a) and Block(a, a) by an authenticated a are answered 400
\* (InvalidOperation), and no follow or block edge joins an identity to
\* itself.
C12_NoSelfEdge ==
  /\ \A a \in Users :
       active(a) => (FollowCode(a, a) = BadRequest /\ BlockCode(a, a) = BadRequest)
  /\ \A a \in UserIds : <<a, a>> \notin follows /\ <<a, a>> \notin blocks

C12_Witness ==
  \E a \in Users, b \in Users, c \in Users :
    /\ active(a) /\ <<a, b>> \in follows /\ <<a, c>> \in blocks
    /\ FollowCode(a, a) = BadRequest /\ BlockCode(a, a) = BadRequest

\* C13 (as the spec states it): a Send by an authenticated caller to the
\* caller's own id is answered 400 (InvalidOperation) whatever isAnonymous
\* and the caller's own allowAnonymousMessages are.
C13_SelfSendAlwaysInvalid ==
  \A c \in Users :
    active(c) => \A anon \in BOOLEAN : SendCode(c, c, anon) = BadRequest

\* C13 (amended): a Send by an authenticated caller to the caller's own id is
\* answered 403 when isAnonymous is true and the caller's own
\* allowAnonymousMessages is false, 400 (InvalidOperation) otherwise, and no
\* step stores a message whose recipient is the caller of its request.
C13_SelfSendRefused ==
  /\ [](\A c \in Users :
          active(c) => \A anon \in BOOLEAN :
            SendCode(c, c, anon) =
              IF anon /\ ~allowAnon[c] THEN Forbidden ELSE BadRequest)
  /\ [][\A m \in messages' \ messages : m.by # m.recipient]_vars

C13_Witness ==
  \E c \in Users, b \in Users :
    /\ active(c) /\ ~allowAnon[c] /\ isBlockedEitherWay(c, b)
    /\ nextMsgId <= MaxFewMsgs
    /\ SendCode(c, c, TRUE) = Forbidden /\ SendCode(c, c, FALSE) = BadRequest

\* A step that is the Review of report r with action t: its caller, status
\* and notes are the ones the step leaves in the report.
ReviewStep(r, t) ==
  /\ r \in DOMAIN reports'
  /\ reports'[r].adminNotes \in AdminNotes
  /\ Review(reports'[r].reviewedBy, r, reports'[r].status,
            reports'[r].adminNotes, t)

\* C14: a Review with ban_user (block_user) on a report whose reportedUser is
\* a stored identity sets that identity's status to banned (blocked) and no
\* other; with delete_message it removes the referenced message and no other;
\* a Review changes statuses or messages, never both, and with no action
\* neither.
C14_CascadeExact ==
  [][\A r \in DOMAIN reports, t \in ActionTypes \cup {None} :
       ReviewStep(r, t) =>
         LET ru == reports[r].reportedUser
             rm == reports[r].reportedMessage
         IN /\ (t = "ban_user" /\ ru \in Users) => status'[ru] = "banned"
            /\ (t = "block_user" /\ ru \in Users) => status'[ru] = "blocked"
            /\ t \in {"ban_user", "block_user"} =>
                 /\ \A u \in Users \ {ru} : status'[u] = status[u]
                 /\ messages' = messages
            /\ t = "delete_message" =>
                 /\ \A m \in messages : m \in messages' <=> m.id # rm
                 /\ messages' \subseteq messages
                 /\ status' = status
            /\ t = None => (status' = status /\ messages' = messages)]_vars

C14_Witness ==
  \E i \in DOMAIN reports :
    LET ru == reports[i].reportedUser IN
    /\ reports[i].status \in ReviewStatus
    /\ ru \in Users /\ status[ru] = "banned"
    /\ \A u \in Users \ {ru} : active(u)
    /\ MessageById(reports[i].reportedMessage) = {}
    /\ messages # {}

\* C15: a Review by an admin of a stored report is answered 200 whether or
\* not the reported message still exists; when its action is ban_user or
\* block_user and reportedUser is null, or delete_message and the message is
\* gone, it commits the report's status, reviewer and notes and changes no
\* user status and no message.
C15_CascadeBestEffort ==
  /\ [](\A c \in Admins, r \in DOMAIN reports, s \in ReviewStatus :
          active(c) => ReviewCode(c, r, s) = OK)
  /\ [][\A c \in Admins, r \in DOMAIN reports, s \in ReviewStatus,
          n \in AdminNotes, t \in ActionTypes :
         (/\ \/ t \in {"ban_user", "block_user"} /\ reports[r].reportedUser = None
             \/ t = "delete_message" /\ MessageById(reports[r].reportedMessage) = {}
          /\ Review(c, r, s, n, t))
         => /\ reports'[r].status = s
            /\ reports'[r].reviewedBy = c
            /\ reports'[r].adminNotes = n
            /\ status' = status
            /\ messages' = messages]_vars

C15_Witness ==
  \E i \in DOMAIN reports :
    /\ reports[i].status \in ReviewStatus
    /\ reports[i].reviewedBy = "u1" /\ reports[i].adminNotes = "n1"
    /\ reports[i].reportedUser = None
    /\ MessageById(reports[i].reportedMessage) = {}
    /\ messages # {}
    /\ \A u \in Users : active(u)

\* C16: for an authenticated viewer v, every answer of the first feed page
\* that holds the whole feed lists, once each, exactly the stored messages
\* whose recipient is v or followed by v and whose reply exists and is
\* public, in non-increasing order of reply creation time.
C16_FeedExact ==
  \A v \in Users :
    FeedCode(v) = OK =>
      \A feed \in Feed(v, 1, MaxMsgs) :
        /\ \A m \in messages :
             (\E i \in DOMAIN feed : feed[i].id = m.id) <=>
               /\ m.recipient = v \/ <<v, m.recipient>> \in follows
               /\ hasReply(m)
               /\ m.reply.isPublic
        /\ \A i \in DOMAIN feed : \E m \in messages : m.id = feed[i].id
        /\ \A i \in DOMAIN feed, j \in DOMAIN feed :
             feed[i].id = feed[j].id => i = j
        /\ \A i \in DOMAIN feed, j \in DOMAIN feed :
             i < j => feed[i].reply.createdAt >= feed[j].reply.createdAt

C16_Witness ==
  \E v \in Users, w \in Users :
    /\ FeedCode(v) = OK /\ FeedCode(w) = OK
    /\ \E feed \in Feed(v, 1, MaxMsgs) :
         /\ Len(feed) = 2
         /\ feed[1].recipient # feed[2].recipient
         /\ feed[1].reply.createdAt > feed[2].reply.createdAt
         /\ feed[1].id < feed[2].id
    /\ \E feed \in Feed(w, 1, MaxMsgs) : Len(feed) = 1
    /\ \E m \in messages : hasReply(m)

\* C17: the profile lookup of u by an authenticated viewer v is answered 403
\* whenever a block edge joins v and u in either direction.
C17_ProfileBlockedEitherWay ==
  \A v \in Users, u \in Users :
    (v # u /\ active(v) /\ active(u) /\ isBlockedEitherWay(v, u)) =>
      ProfileCode(v, u) = Forbidden

\* C18: Read, Reply and Delete on the recipient path by an authenticated
\* identity other than the message's recipient are answered 404; a step
\* that changes a message's read flag or reply is a Read or Reply by its
\* recipient, and a step that removes a message is its recipient's Delete, an
\* admin delete of it, or a Review with delete_message of a report on it.
C18_RecipientOwnsMessage ==
  /\ [](\A m \in messages : \A c \in Users \ {m.recipient} :
          active(c) => /\ ReadCode(c, m.id) = NotFound
                       /\ ReplyCode(c, m.id) = NotFound
                       /\ DeleteMessageCode(c, m.id) = NotFound)
  /\ [][\A m \in messages :
          /\ (\E k \in messages' :
                k.id = m.id /\ (k.isRead # m.isRead \/ k.reply # m.reply))
             => \/ Read(m.recipient, m.id)
                \/ \E rc \in ReplyContents, p \in BOOLEAN :
                     Reply(m.recipient, m.id, rc, p)
          /\ (\A k \in messages' : k.id # m.id)
             => \/ DeleteMessage(m.recipient, m.id)
                \/ \E c \in Admins : AdminDeleteMessage(c, m.id)
                \/ \E c \in Admins, r \in ReportIds, s \in ReviewStatus,
                      n \in AdminNotes :
                     /\ Review(c, r, s, n, "delete_message")
                     /\ reports[r].reportedMessage = m.id]_vars

C18_Witness ==
  /\ nextMsgId > MaxMsgs
  /\ Cardinality(messages) = 1
  /\ \E m \in messages :
       /\ hasReply(m) /\ m.isRead
       /\ \E c \in Users \ (Admins \cup {m.recipient}) :
            active(c) /\ DeleteMessageCode(c, m.id) = NotFound
  /\ \E i \in DOMAIN reports :
       reports[i].status \in ReviewStatus /\
       MessageById(reports[i].reportedMessage) = {}

\* C19: a Follow by an authenticated actor is answered, by the first condition
\* that fails, 400 (InvalidOperation) for actor = target, 404 for a target
\* missing or not active, 409 (Conflict) for an existing edge, 403 for a
\* block in either direction, and succeeds otherwise.
C19_FollowLadder ==
  \A a \in Users, t \in UserIds :
    active(a) =>
      FollowCode(a, t) =
        IF a = t THEN BadRequest
        ELSE IF t \notin Users \/ ~active(t) THEN NotFound
        ELSE IF <<a, t>> \in follows THEN Conflict
        ELSE IF isBlockedEitherWay(a, t) THEN Forbidden
        ELSE OK

\* C20: a duplicate Follow, a Block of an already blocked user, a second
\* Reply and a duplicate Report are each answered 409 (Conflict), not 400.
C20_ConflictKind ==
  /\ \A a \in Users, t \in Users :
       (active(a) /\ active(t) /\ <<a, t>> \in follows) =>
         FollowCode(a, t) = Conflict
  /\ \A a \in Users, t \in Users :
       (active(a) /\ <<a, t>> \in blocks) => BlockCode(a, t) = Conflict
  /\ \A m \in messages :
       (active(m.recipient) /\ hasReply(m)) =>
         ReplyCode(m.recipient, m.id) = Conflict
  /\ \A i \in DOMAIN reports :
       (active(reports[i].reporter) /\
        MessageById(reports[i].reportedMessage) # {}) =>
         ReportCode(reports[i].reporter, reports[i].reportedMessage) = Conflict

\* C21: a Send that stores a message for a recipient whose emailNotifications
\* is true has asked the mailer to notify that recipient by the time it
\* answers (nothing runs for the request after its answer), and a Send to a
\* recipient whose emailNotifications is false asks for no notification.
C21_SendNotifiesRecipient ==
  [][\A m \in messages' \ messages :
       IF emailNotif[m.recipient] THEN m.id \in notified'
                                  ELSE m.id \notin notified']_vars

\* The review fields of a report.
reviewFields(rep) == <<rep.status, rep.adminNotes, rep.reviewedBy>>

\* C22: a Review or a status change asked by a caller that is not an active
\* admin is answered 401 or 403, and a step that changes a user's status or a
\* report's status, notes or reviewer is the Review or the status change of
\* a caller whose isAdmin is true and whose status is active.
C22_OnlyActiveAdminModerates ==
  /\ [](\A c \in Credentials :
          (c \notin Admins \/ ~active(c)) =>
            /\ \A r \in ReportIds, s \in ReviewInputs :
                 ReviewCode(c, r, s) \in {Unauthorized, Forbidden}
            /\ \A u \in UserIds, s \in StatusInputs :
                 UpdateUserStatusCode(c, u, s) \in {Unauthorized, Forbidden})
  /\ [][(\/ status' # status
         \/ \E i \in DOMAIN reports :
              reviewFields(reports'[i]) # reviewFields(reports[i]))
        => \E c \in Admins :
             /\ active(c)
             /\ \/ \E u \in UserIds, s \in StatusInputs : UpdateUserStatus(c, u, s)
                \/ \E r \in DOMAIN reports, t \in ActionTypes \cup {None} :
                     reports'[r].reviewedBy = c /\ ReviewStep(r, t)]_vars

C22_Witness ==
  /\ \E c \in Admins : ~active(c)
  /\ \E u \in Users \ Admins : status[u] = "banned"
  /\ \E i \in DOMAIN reports : reports[i].status \in ReviewStatus

\* C23: a status change by the admin route sets the target's status to the
\* new status and changes nothing else: the other users' statuses, the
\* messages, the follow edges, the block edges and the reports are the same
\* before and after it, also when the new status is banned.
C23_StatusChangeFrame ==
  [][\A c \in Credentials, u \in UserIds, s \in StatusInputs :
       UpdateUserStatus(c, u, s) =>
         /\ status'[u] = s
         /\ \A v \in Users \ {u} : status'[v] = status[v]
         /\ messages' = messages
         /\ follows' = follows
         /\ blocks' = blocks
         /\ reports' = reports]_vars

C23_Witness ==
  \E u \in Users :
    /\ status[u] = "banned"
    /\ \E v \in Users : <<u, v>> \in follows
    /\ \E v \in Users : <<u, v>> \in blocks
    /\ \E m \in messages : m.sender = u
    /\ \E i \in DOMAIN reports :
         reports[i].reportedUser = u /\ reports[i].status = "pending"

\* C24: whenever no follow or block request is in progress, no pair of users
\* is joined both by a block edge and by a follow edge, however the Block
\* and Follow requests were interleaved.
C24_BlockSeversFollowConcurrently ==
  pending = <<>> =>
    \A a \in Users, b \in Users :
      isBlockedEitherWay(a, b) =>
        (<<a, b>> \notin follows /\ <<b, a>> \notin follows)

\* C26: at most one follow edge and one block edge exists per ordered pair of
\* users, and a follow or block request suspended at its save is answered
\* 200 or 409 (Conflict) when the save settles, never 500 (Internal).
C26_DuplicateEdgeConflict ==
  /\ \A a \in Users, b \in Users :
       /\ Cardinality({f \in follows : f = <<a, b>>}) <= 1
       /\ Cardinality({k \in blocks : k = <<a, b>>}) <= 1
  /\ \A i \in DOMAIN pending :
       /\ pending[i].kind = "follow" =>
            FollowSaveCode(pending[i]) \in {OK, Conflict}
       /\ pending[i].kind = "block" =>
            BlockSaveCode(pending[i]) \in {OK, Conflict}

\* C25: no step changes a reply that a message already has, also when two
\* reply requests for the message are handled concurrently.
C25_ReplyWriteOnceConcurrently ==
  [][\A m \in messages, k \in messages' :
       (k.id = m.id /\ hasReply(m)) => k.reply = m.reply]_vars

\* C27: every stored message that has a reply has its read flag set; no step
\* takes a read flag from true back to false; a Read by the recipient on a
\* message already read is answered 200 and leaves the messages as they are.
C27_ReadFlagMonotone ==
  /\ [](\A m \in messages : hasReply(m) => m.isRead)
  /\ [](\A m \in messages :
          (m.isRead /\ active(m.recipient)) => ReadCode(m.recipient, m.id) = OK)
  /\ [][\A m \in messages, k \in messages' :
          (k.id = m.id /\ m.isRead) => k.isRead]_vars
  /\ [][\A m \in messages :
          (m.isRead /\ Read(m.recipient, m.id)) => messages' = messages]_vars

C27_Witness ==
  /\ \E m \in messages : hasReply(m) /\ m.isRead
  /\ \E m \in messages :
       ~hasReply(m) /\ m.isRead /\ ReadCode(m.recipient, m.id) = OK

\* C28: no Send stores a message with sender null for a recipient whose
\* allowAnonymousMessages is false when the request is served, whoever the
\* caller is and whatever isAnonymous is.
C28_NoNullSenderWhenRefused ==
  [][\A m \in messages' \ messages :
       ~allowAnon[m.recipient] => m.sender # None]_vars

\* C29: no stored message has isAnonymous true together with a sender that is
\* not null, so the inbox and feed projections, which null the sender by the
\* flag, never remove a sender that is stored.
C29_FlagNeverLeaksSender ==
  \A m \in messages :
    /\ m.isAnonymous => m.sender = None
    /\ InboxEntry(m).sender = m.sender
    /\ FeedItem(m).sender = m.sender

C29_Witness ==
  /\ \E m \in messages : m.isAnonymous /\ m.by # None /\ InboxEntry(m).sender = None
  /\ \E m \in messages : ~m.isAnonymous /\ m.sender = None

\* C30: a report's status is "pending" exactly when its reviewer and its
\* review time are unset; a report is created pending; a report whose status
\* has left "pending" never returns to it.
C30_PendingIffUnreviewed ==
  /\ [](\A i \in DOMAIN reports :
          reports[i].status = "pending"
            <=> (reports[i].reviewedBy = None /\ reports[i].reviewedAt = NoTime))
  /\ [][/\ \A i \in DOMAIN reports' \ DOMAIN reports :
             reports'[i].status = "pending"
        /\ \A i \in DOMAIN reports :
             /\ i \in DOMAIN reports'
             /\ reports[i].status # "pending" => reports'[i].status # "pending"]_vars

C30_Witness ==
  \E i \in DOMAIN reports :
       reports[i].status \in ReviewStatus /\ reports[i].reviewedBy \in Admins
         /\ reports[i].reviewedAt # NoTime

====
